---------------------------- MODULE Spec2Model ----------------------------
(***************************************************************************)
(* A model of the NCSC CAF scraper (src/main.py): link discovery, the      *)
(* memoized Principle / Objective entities, section and PCF table          *)
(* extraction, the serializing main() and the __main__ session lifecycle.  *)
(*                                                                         *)
(* Text is a sequence of tokens; the token " " is whitespace.  URL paths   *)
(* are sequences of code points, so that Python's string order is the     *)
(* lexicographic order of the sequences.                                   *)
(***************************************************************************)
EXTENDS Integers, Sequences, FiniteSets, TLC

VARIABLES
    table,      \* SpecTable: the <table> element handed to extract_pcf_table
    frame,      \* SpecTable: <<>> before the call, <<result>> after it
    doc,        \* SpecSection: the parsed page of a Principle
    section,    \* SpecSection: <<>> or <<[name, value]>>, the last field read
    anchors,    \* SpecLinks: the <a> tags of the rendered page, document order
    links,      \* SpecLinks: <<>> or <<result of link discovery>>
    pc,         \* Spec / SpecReads: position of the program
    driver,     \* the global webdriver name: "unbound", "open" or "closed"
    file,       \* the output file: "untouched", "open", "written", "closed"
    content,    \* what the output file holds: "old", "empty" or "json"
    objectives, \* main()'s list of Objective instances
    prins,      \* prins[i]: the Principle instances of objectives[i]
    pos,        \* the serializer's position in the entity tree
    error,      \* the exception in flight, "" when none
    hist        \* history: the homepage's check, the reads, I/O and writes

vars == <<table, frame, doc, section, anchors, links, pc, driver, file,
          content, objectives, prins, pos, error, hist>>

----------------------------------------------------------------------------
(* Bounds of the model.                                                    *)

MaxRows == 4
MaxCols == 2
MaxFrags == 2
MaxNodes == 4
MaxAnchors == 2
MaxPathLen == 2
MaxObjectives == 1
MaxPrinciples == 2

----------------------------------------------------------------------------
(* Generic helpers.                                                        *)

Max(a, b) == IF a >= b THEN a ELSE b

RECURSIVE MaxLen(_)
MaxLen(seqs) ==
    IF seqs = <<>> THEN 0 ELSE Max(Len(Head(seqs)), MaxLen(Tail(seqs)))

RECURSIVE Flatten(_)
Flatten(seqs) ==
    IF seqs = <<>> THEN <<>> ELSE Head(seqs) \o Flatten(Tail(seqs))

RECURSIVE SeqsUpTo(_, _)
SeqsUpTo(S, n) ==
    IF n = 0 THEN {<<>>}
    ELSE LET shorter == SeqsUpTo(S, n - 1)
         IN  shorter \cup {Append(s, x) : s \in {t \in shorter : Len(t) = n - 1}, x \in S}

----------------------------------------------------------------------------
(* Text: bs4's get_text.                                                   *)

RECURSIVE LStrip(_)
LStrip(s) ==
    IF s = <<>> THEN <<>>
    ELSE IF Head(s) = " " THEN LStrip(Tail(s)) ELSE s

RECURSIVE RStrip(_)
RStrip(s) ==
    IF s = <<>> THEN <<>>
    ELSE IF s[Len(s)] = " " THEN RStrip(SubSeq(s, 1, Len(s) - 1)) ELSE s

Strip(s) == RStrip(LStrip(s))

\* tag.get_text(strip=True): every string of the tag stripped, the empty
\* ones dropped, the rest joined with no separator.
GetTextStrip(pieces) == Flatten([i \in 1..Len(pieces) |-> Strip(pieces[i])])

\* tag.text: the strings of the tag joined as they are.
GetText(pieces) == Flatten(pieces)

----------------------------------------------------------------------------
(* Principle.extract_pcf_table.                                            *)

\* The absent marker of itertools.zip_longest (fillvalue None).
None == <<"None">>

expected_num_rows == 3

\* itertools.zip_longest(*p_texts)
ZipLongest(p_texts) ==
    [i \in 1..MaxLen(p_texts) |->
        [j \in 1..Len(p_texts) |->
            IF i <= Len(p_texts[j]) THEN p_texts[j][i] ELSE None]]

\* pd.DataFrame(table, columns=columns) on a list of tuples: the tuples are
\* padded with None to the widest one, and a column count that is not that
\* width raises ValueError.
NoFrame == [raised |-> "", columns |-> <<>>, data |-> <<>>]

DataFrame(tuples, columns) ==
    LET width == MaxLen(tuples)
    IN  IF Len(columns) # width
        THEN [NoFrame EXCEPT !.raised = "ValueError"]
        ELSE [raised  |-> "",
              columns |-> columns,
              data    |-> [i \in 1..Len(tuples) |->
                             [j \in 1..width |->
                                 IF j <= Len(tuples[i]) THEN tuples[i][j] ELSE None]]]

\* The extraction with a row test that refuses only tables of fewer than
\* three rows.
extract_pcf_table_min_rows(table_tag) ==
    LET tr_tags == table_tag
    IN  IF Len(tr_tags) < expected_num_rows
        THEN [NoFrame EXCEPT !.raised = "NotImplementedError"]
        ELSE LET columns    == tr_tags[1].th
                 subheaders == [j \in 1..Len(tr_tags[2].td) |-> tr_tags[2].td[j].text]
                 td_tags    == tr_tags[Len(tr_tags)].td
                 p_texts    == [j \in 1..Len(td_tags) |-> td_tags[j].ps]
             IN  DataFrame(<<subheaders>> \o ZipLongest(p_texts), columns)

\* A table element is the sequence of its <tr> tags; a row is [th, td], td a
\* sequence of cells [text, ps].
extract_pcf_table(table_tag) ==
    LET tr_tags == table_tag
    IN  IF Len(tr_tags) # expected_num_rows
        THEN [NoFrame EXCEPT !.raised = "NotImplementedError"]
        ELSE LET columns    == tr_tags[1].th
                 subheaders == [j \in 1..Len(tr_tags[2].td) |-> tr_tags[2].td[j].text]
                 td_tags    == tr_tags[Len(tr_tags)].td
                 p_texts    == [j \in 1..Len(td_tags) |-> td_tags[j].ps]
             IN  DataFrame(<<subheaders>> \o ZipLongest(p_texts), columns)

----------------------------------------------------------------------------
(* The tables of SpecTable.                                                *)

HeaderRow(n) == [th |-> [j \in 1..n |-> <<"h", j>>], td |-> <<>>]

SubheaderRow(n) ==
    [th |-> <<>>, td |-> [j \in 1..n |-> [text |-> <<"s", j>>, ps |-> <<>>]]]

\* lens[j] is the number of <p> fragments of column j's cell.
DetailRow(lens) ==
    [th |-> <<>>,
     td |-> [j \in 1..Len(lens) |->
                [text |-> <<"d", j>>,
                 ps   |-> [i \in 1..lens[j] |-> <<"p", j, i>>]]]]

ThreeRowTables ==
    {<<HeaderRow(n), SubheaderRow(m), DetailRow(lens)>> :
        n \in 0..MaxCols, m \in 0..MaxCols, lens \in SeqsUpTo(0..MaxFrags, MaxCols)}

\* Tables of any other row count: the header row, then detail rows.
OtherTables ==
    {[r \in 1..k |-> IF r = 1 THEN HeaderRow(n) ELSE DetailRow(lens)] :
        k \in (0..MaxRows) \ {expected_num_rows},
        n \in 1..MaxCols, lens \in SeqsUpTo(1..MaxFrags, MaxCols)}

Tables == ThreeRowTables \cup OtherTables

----------------------------------------------------------------------------
(* The parsed page (BeautifulSoup): a sequence of tags in document order.  *)
(* A tag is [tag, cls, parent, pieces]: parent is the index of the         *)
(* enclosing tag, 0 for the BeautifulSoup object itself; pieces are the    *)
(* strings of the tag.                                                     *)

\* The value of tag.parent that the code tests for and bs4 never gives a
\* tag found in a parsed page.
NoParent == 0 - 1

Tag(t, c, p, s) == [tag |-> t, cls |-> c, parent |-> p, pieces |-> s]

RECURSIVE IsInside(_, _, _)
IsInside(soup, i, c) ==
    LET p == soup[i].parent
    IN  IF p = c THEN TRUE
        ELSE IF p = 0 THEN FALSE
        ELSE IsInside(soup, p, c)

Indices(soup) == [i \in 1..Len(soup) |-> i]

\* find_all(name, recursive=False): the children of that name only.
find_children(soup, c, name) ==
    LET Hit(i) == soup[i].tag = name /\ soup[i].parent = c
    IN  SelectSeq(Indices(soup), Hit)

\* container.find_all(name): every descendant of that name, document order
\* (bs4 searches recursively unless told otherwise).
find_all(soup, c, name) ==
    LET Hit(i) == soup[i].tag = name /\ IsInside(soup, i, c)
    IN  SelectSeq(Indices(soup), Hit)

\* tag.string: the tag's only string, None (<<>>) when it has none or several.
String(t) == IF Len(t.pieces) = 1 THEN <<t.pieces[1]>> ELSE <<>>

\* re.compile(r"\s*Word\s*").search(s): s contains Word.
Search(word, s) == \E k \in 1..Len(s) : s[k] = word

\* soup.find("h2", string=pattern): the first <h2> whose string matches,
\* 0 (None) when there is none.
find_h2(soup, word) ==
    LET Hit(i) == /\ soup[i].tag = "h2"
                  /\ String(soup[i]) # <<>>
                  /\ Search(word, String(soup[i])[1])
        hits   == SelectSeq(Indices(soup), Hit)
    IN  IF hits = <<>> THEN 0 ELSE Head(hits)

\* soup.find("h1", attrs={"class": "subHeading"})
find_h1(soup) ==
    LET Hit(i) == soup[i].tag = "h1" /\ soup[i].cls = "subHeading"
        hits   == SelectSeq(Indices(soup), Hit)
    IN  IF hits = <<>> THEN 0 ELSE Head(hits)

\* The section body without its test for an empty paragraph list.
SectionOfUnchecked(soup, word, sentinel) ==
    LET h2_tag == find_h2(soup, word)
    IN  IF h2_tag = 0 THEN <<sentinel>>
        ELSE LET p_tags == find_all(soup, soup[h2_tag].parent, "p")
             IN  [k \in 1..Len(p_tags) |-> GetTextStrip(soup[p_tags[k]].pieces)]

\* The body shared by Principle.principle, .description and .guidance.
SectionOf(soup, word, sentinel) ==
    LET h2_tag == find_h2(soup, word)
    IN  IF h2_tag = 0 THEN <<sentinel>>
        ELSE LET h2_tag_parent == soup[h2_tag].parent
             IN  IF h2_tag_parent = NoParent THEN <<sentinel>>
                 ELSE LET p_tags == find_all(soup, h2_tag_parent, "p")
                      IN  IF p_tags = <<>> THEN <<sentinel>>
                          ELSE [k \in 1..Len(p_tags) |->
                                   GetTextStrip(soup[p_tags[k]].pieces)]

principle(soup) == SectionOf(soup, "Principle", <<"error determining principle">>)

description(soup) == SectionOf(soup, "Description", <<"error determining description">>)

guidance(soup) == SectionOf(soup, "Guidance", <<"error determining guidance">>)

SectionNames == {"principle", "description", "guidance"}

Section(soup, name) ==
    CASE name = "principle"   -> principle(soup)
      [] name = "description" -> description(soup)
      [] name = "guidance"    -> guidance(soup)

\* Principle.heading
PrincipleHeading(soup) ==
    LET tag == find_h1(soup)
    IN  IF tag = 0 THEN <<"error determining heading">>
        ELSE GetTextStrip(soup[tag].pieces)

\* Objective.heading
ObjectiveHeading(soup) ==
    LET tag == find_h1(soup)
    IN  IF tag = 0 THEN <<"error determining heading">>
        ELSE GetText(soup[tag].pieces)

----------------------------------------------------------------------------
(* The pages of SpecSection: every document of at most MaxNodes tags made  *)
(* of containers, headings and paragraphs.                                 *)

Word(i) == <<"P1", "P2", "P3", "P4", "P5", "P6", "P7", "P8">>[i]

\* The strings of the paragraph at index i: one string, or two strings with
\* surrounding whitespace.
ParaPieces(i) == {<< <<Word(i)>> >>, << <<" ", Word(i), " ">>, <<"x", " ">> >>}

H2Pieces ==
    {<< <<"Principle">> >>,
     << <<" ", "Description", " ">> >>,
     << <<"Guidance">> >>,
     << <<"Guidance">>, <<"x">> >>}

\* The containers a next tag can be put in: the BeautifulSoup object, or an
\* open <div> (the last tag or one of its ancestors).
RECURSIVE OpenDivs(_, _)
OpenDivs(soup, i) ==
    IF i = 0 THEN {0}
    ELSE (IF soup[i].tag = "div" THEN {i} ELSE {}) \cup OpenDivs(soup, soup[i].parent)

NextTags(soup) ==
    LET i == Len(soup) + 1
    IN  UNION {{Tag("div", "", p, <<>>)}
               \cup {Tag("p", "", p, s) : s \in ParaPieces(i)}
               \cup {Tag("h2", "", p, s) : s \in H2Pieces}
               : p \in OpenDivs(soup, Len(soup))}

RECURSIVE Docs(_)
Docs(n) ==
    IF n = 0 THEN {<<>>}
    ELSE LET shorter == Docs(n - 1)
         IN  shorter \cup UNION {{Append(d, t) : t \in NextTags(d)} :
                                   d \in {e \in shorter : Len(e) = n - 1}}

----------------------------------------------------------------------------
(* Link discovery: get_caf_objective_links and get_caf_principle_links.    *)
(* A URL is [path, frag], both sequences of code points; an <a> tag is     *)
(* [href], <<>> when it has no href attribute, else <<[path, frag]>>, the  *)
(* reference path#frag.  References are absolute paths or bare fragments.  *)

Slash == 47
Hash == 35
SingleQuote == 39
DoubleQuote == 34
LetterB == 98

\* "objective" and "principle", shortened to one letter each ("o", "p"):
\* the paths of the model are at most MaxPathLen + 1 code points long.
ObjectiveToken == <<111>>
PrincipleToken == <<112>>

URL(path, frag) == [path |-> path, frag |-> frag]

\* The href attribute as the string the page holds.
HrefString(ref) ==
    ref.path \o (IF ref.frag = <<>> THEN <<>> ELSE <<Hash>> \o ref.frag)

\* sub in s, for Python strings.
Contains(s, sub) ==
    \E k \in 0..(Len(s) - Len(sub)) : SubSeq(s, k + 1, k + Len(sub)) = sub

\* base.join(href) for an absolute-path or fragment-only reference.
Join(base, ref) ==
    URL(IF ref.path = <<>> THEN base.path ELSE ref.path, ref.frag)

\* str(x.raw_path): the repr of a bytes object, b'...' unless the bytes
\* hold a single quote and no double quote, then b"...".
StrRawPath(x) ==
    LET quote == IF \E k \in 1..Len(x.path) : x.path[k] = SingleQuote
                 THEN DoubleQuote ELSE SingleQuote
    IN  <<LetterB, quote>> \o x.path \o <<quote>>

\* a < b for Python strings: code point by code point, a prefix first.
RECURSIVE StrLess(_, _)
StrLess(a, b) ==
    IF b = <<>> THEN FALSE
    ELSE IF a = <<>> THEN TRUE
    ELSE IF Head(a) # Head(b) THEN Head(a) < Head(b)
    ELSE StrLess(Tail(a), Tail(b))

\* list.sort(key=...) is stable: x goes behind every element whose key is
\* not greater than its own.
RECURSIVE SortInsert(_, _)
SortInsert(sorted, x) ==
    IF sorted = <<>> THEN <<x>>
    ELSE IF StrLess(StrRawPath(x), StrRawPath(Head(sorted)))
         THEN <<x>> \o sorted
         ELSE <<Head(sorted)>> \o SortInsert(Tail(sorted), x)

RECURSIVE SortByRawPath(_)
SortByRawPath(list) ==
    IF list = <<>> THEN <<>>
    ELSE SortInsert(SortByRawPath(SubSeq(list, 1, Len(list) - 1)), list[Len(list)])

\* The list comprehension of lines 54 and 81: the <a> tags with an href
\* that holds the token, each joined to the base.
FilterJoin(base, a_tags, token) ==
    LET Keep(a) == a.href # <<>> /\ Contains(HrefString(a.href[1]), token)
        kept    == SelectSeq(a_tags, Keep)
    IN  [k \in 1..Len(kept) |-> Join(base, kept[k].href[1])]

\* status is the existence check's answer, a_tags the rendered page.
GetLinks(status, base, a_tags, token) ==
    IF status = "NOT_FOUND" THEN <<>>
    ELSE SortByRawPath(FilterJoin(base, a_tags, token))

get_caf_objective_links(status, base, a_tags) ==
    GetLinks(status, base, a_tags, ObjectiveToken)

get_caf_principle_links(status, objective, a_tags) ==
    GetLinks(status, objective, a_tags, PrincipleToken)

Statuses == {"OK", "NOT_FOUND"}

----------------------------------------------------------------------------
(* The pages of SpecLinks.                                                 *)

PathChars == {33, SingleQuote, 111}

Paths == {<<Slash>> \o s : s \in SeqsUpTo(PathChars, MaxPathLen)}

Frags == {<<>>, <<120>>}

Hrefs == {URL(q, f) : q \in Paths \cup {<<>>}, f \in Frags}

ATags == {[href |-> <<>>]} \cup {[href |-> <<r>>] : r \in Hrefs}

HomePage == URL(<<Slash, 99>>, <<>>)

----------------------------------------------------------------------------
(* Principle.pcfs.  A rendered page is [soup, pcf_tags, a_tags]: the tags  *)
(* of the headings and sections, the div.pcf-BodyText blocks and the <a>   *)
(* tags.  A block is [h3, em, tables]: the strings of its <h3> (<<>> when  *)
(* it has none), the strings of each of its <em> tags, and its <table>     *)
(* elements.                                                               *)

\* BeautifulSoup(): the page of a URL reported not found.
EmptySoup == [soup |-> <<>>, pcf_tags |-> <<>>, a_tags |-> <<>>]

Outcome(e, raised, value) == [e |-> e, raised |-> raised, value |-> value]

\* The first k for which frames[k] raised, 0 when none did.
FirstRaised(frames) ==
    LET bad == {k \in 1..Len(frames) : frames[k].raised # ""}
    IN  IF bad = {} THEN 0 ELSE CHOOSE k \in bad : \A m \in bad : k <= m

\* [raised, value]: the list of (heading, details, table), or the exception
\* of the first table that raises one.
pcfs(page) ==
    LET HasTable(pcf_tag)  == pcf_tag.tables # <<>>
        filtered_pcf_tags  == SelectSeq(page.pcf_tags, HasTable)
        frames == [k \in 1..Len(filtered_pcf_tags) |->
                      extract_pcf_table(filtered_pcf_tags[k].tables[1])]
        Block(k) ==
            LET pcf_tag == filtered_pcf_tags[k]
            IN  [heading |-> IF pcf_tag.h3 = <<>>
                             THEN <<"error determining pcf heading">>
                             ELSE GetTextStrip(pcf_tag.h3),
                 details |-> IF pcf_tag.em = <<>>
                             THEN << <<"error determining guidance">> >>
                             ELSE [n \in 1..Len(pcf_tag.em) |->
                                      GetTextStrip(pcf_tag.em[n])],
                 table   |-> frames[k]]
    IN  IF filtered_pcf_tags = <<>> THEN [raised |-> "", value |-> <<>>]
        ELSE IF FirstRaised(frames) # 0
        THEN [raised |-> frames[FirstRaised(frames)].raised, value |-> <<>>]
        ELSE [raised |-> "", value |-> [k \in 1..Len(filtered_pcf_tags) |-> Block(k)]]

----------------------------------------------------------------------------
(* The entities.  An instance is [link, cache, computed, status, checks,   *)
(* renders]: cache[f] is <<>> until field f is stored and <<value>> after; *)
(* computed[f] counts the evaluations of f that returned; status, checks   *)
(* and renders record the httpx.get and driver.get calls made with the     *)
(* instance's link, by _content ("content") and by link discovery          *)
(* ("links").                                                              *)

ObjectiveFields == <<"_content", "heading", "principles">>

PrincipleFields ==
    <<"_content", "heading", "principle", "description", "guidance", "pcfs">>

Range(seq) == {seq[k] : k \in 1..Len(seq)}

NewEntity(link, fields) ==
    [link     |-> link,
     cache    |-> [f \in Range(fields) |-> <<>>],
     computed |-> [f \in Range(fields) |-> 0],
     status   |-> [content |-> "", links |-> ""],
     checks   |-> [content |-> 0, links |-> 0],
     renders  |-> [content |-> 0, links |-> 0]]

\* A plain property: nothing counts as stored.
NeverCached(e, f) == FALSE

\* functools.cached_property: the value is in the instance's __dict__.
Cached(e, f) == e.cache[f] # <<>>

Store(e, f, value) ==
    [e EXCEPT !.cache[f] = <<value>>, !.computed[f] = @ + 1]

\* The fetch without the early return on NOT_FOUND.
FetchAlways(e, by, status) ==
    [e EXCEPT !.status[by]  = status,
              !.checks[by]  = @ + 1,
              !.renders[by] = @ + 1]

\* httpx.get(link), then driver.get(link) unless the answer is NOT_FOUND;
\* by is "content" or "links".  The readiness wait's timeout is caught and
\* logged: the page is whatever the session then holds.
Fetch(e, by, status) ==
    [e EXCEPT !.status[by]  = status,
              !.checks[by]  = @ + 1,
              !.renders[by] = IF status = "NOT_FOUND" THEN @ ELSE @ + 1]

\* Principle._content and Objective._content
Content(e, status, page) ==
    IF Cached(e, "_content") THEN e
    ELSE Store(Fetch(e, "content", status), "_content",
               IF status = "NOT_FOUND" THEN EmptySoup ELSE page)

\* A read of computed field f of a Principle.
PrincipleRead(e, f, status, page) ==
    IF Cached(e, f) THEN Outcome(e, "", e.cache[f][1])
    ELSE LET e1  == Content(e, status, page)
             pg  == e1.cache["_content"][1]
         IN  CASE f = "_content"    -> Outcome(e1, "", pg)
               [] f = "heading"     -> Outcome(Store(e1, f, PrincipleHeading(pg.soup)), "",
                                               PrincipleHeading(pg.soup))
               [] f \in SectionNames -> Outcome(Store(e1, f, Section(pg.soup, f)), "",
                                                Section(pg.soup, f))
               [] f = "pcfs"        ->
                    IF pcfs(pg).raised # "" THEN Outcome(e1, pcfs(pg).raised, <<>>)
                    ELSE Outcome(Store(e1, f, pcfs(pg).value), "", pcfs(pg).value)

\* A read of computed field f of an Objective.
ObjectiveRead(e, f, status, page) ==
    IF Cached(e, f) THEN Outcome(e, "", e.cache[f][1])
    ELSE CASE f = "_content" ->
                LET e1 == Content(e, status, page)
                IN  Outcome(e1, "", e1.cache["_content"][1])
           [] f = "heading" ->
                LET e1 == Content(e, status, page)
                    v  == ObjectiveHeading(e1.cache["_content"][1].soup)
                IN  Outcome(Store(e1, f, v), "", v)
           [] f = "principles" ->
                LET v == get_caf_principle_links(status, e.link, page.a_tags)
                IN  Outcome(Store(Fetch(e, "links", status), f, v), "", v)

\* [Principle(link=link) for link in ...]
NewPrinciples(list) == [k \in 1..Len(list) |-> NewEntity(list[k], PrincipleFields)]

----------------------------------------------------------------------------
(* The pages the renderer can return in Spec and SpecReads.                *)

FullSoup ==
    <<Tag("h1", "subHeading", 0, << <<" ", "A1", " ">> >>),
      Tag("div", "", 0, <<>>),
      Tag("h2", "", 2, << <<"Principle">> >>),
      Tag("p", "", 2, << <<"P1">> >>),
      Tag("p", "", 2, << <<" ", "P2">> >>),
      Tag("div", "", 0, <<>>),
      Tag("h2", "", 6, << <<"Description">> >>),
      Tag("p", "", 6, << <<"D1">> >>),
      Tag("div", "", 0, <<>>),
      Tag("h2", "", 9, << <<"Guidance">> >>),
      Tag("p", "", 9, << <<"G1">> >>)>>

\* No h1.subHeading, a Principle heading without paragraphs, no other heading.
BareSoup ==
    <<Tag("h1", "", 0, << <<"A2">> >>),
      Tag("div", "", 0, <<>>),
      Tag("h2", "", 2, << <<"Principle">> >>)>>

RaggedTable == <<HeaderRow(2), SubheaderRow(2), DetailRow(<<2, 1>>)>>

EmptyTable == <<HeaderRow(0), SubheaderRow(0), DetailRow(<<>>)>>

\* One header cell, two data cells.
WideTable == <<HeaderRow(1), SubheaderRow(2), DetailRow(<<1, 1>>)>>

RowsTable(k) == [r \in 1..k |-> IF r = 1 THEN HeaderRow(2) ELSE DetailRow(<<1, 1>>)]

GoodBlock ==
    [h3     |-> << <<" ", "B1">> >>,
     em     |-> << << <<"e1", " ">> >>, << <<"e2">> >> >>,
     tables |-> <<RaggedTable>>]

BareBlock == [h3 |-> <<>>, em |-> <<>>, tables |-> <<EmptyTable>>]

NoTableBlock == [h3 |-> << <<"B0">> >>, em |-> <<>>, tables |-> <<>>]

TableBlock(t) == [h3 |-> << <<"B2">> >>, em |-> << << <<"e3">> >> >>, tables |-> <<t>>]

PageOf(soup, pcf_tags) == [soup |-> soup, pcf_tags |-> pcf_tags, a_tags |-> <<>>]

\* Principle pages none of whose tables breaks the three-row shape or the
\* column count.
SoundPrinciplePages ==
    {PageOf(FullSoup, <<NoTableBlock, GoodBlock>>),
     PageOf(BareSoup, <<BareBlock>>)}

WidePrinciplePages == {PageOf(FullSoup, <<GoodBlock, TableBlock(WideTable)>>)}

RowsPrinciplePages ==
    {PageOf(FullSoup, <<GoodBlock, TableBlock(RowsTable(k))>>) :
        k \in (0..MaxRows) \ {expected_num_rows}}

PrinciplePages == SoundPrinciplePages \cup WidePrinciplePages \cup RowsPrinciplePages

\* The k-th reference holding token: /t, /t!, /t!!, ...
Ref(token, k) == URL(<<Slash>> \o token \o [n \in 1..(k - 1) |-> 33], <<>>)

\* n references holding the token, in document order, behind one that
\* does not hold it and one <a> without href.
ATagsOf(token, n) ==
    <<[href |-> <<>>], [href |-> <<URL(<<Slash, 97>>, <<>>)>>]>>
        \o [k \in 1..n |-> [href |-> <<Ref(token, k)>>]]

HomePages ==
    {[soup |-> <<>>, pcf_tags |-> <<>>, a_tags |-> ATagsOf(ObjectiveToken, n)] :
        n \in 0..MaxObjectives}

\* The Objective page as _content renders it, and as link discovery does.
ObjectivePages ==
    {[soup |-> sp, pcf_tags |-> <<>>, a_tags |-> ATagsOf(PrincipleToken, MaxPrinciples)] :
        sp \in {FullSoup, BareSoup}}

ObjectiveLinkPages ==
    {[soup |-> FullSoup, pcf_tags |-> <<>>, a_tags |-> ATagsOf(PrincipleToken, n)] :
        n \in 0..MaxPrinciples}

PagesFor(f) == IF f = "principles" THEN ObjectiveLinkPages ELSE ObjectivePages

----------------------------------------------------------------------------
(* Reads of computed fields: the steps of model_dump() in Spec, and the    *)
(* reads of SpecReads.                                                     *)

\* Whether a read of field f of e asks the site: f is not stored, and it
\* is the link discovery or needs a page that is not stored either.
Fetches(e, f) == ~Cached(e, f) /\ (f = "principles" \/ ~Cached(e, "_content"))

\* What the site can answer a read: the existence check's status and, unless
\* it is NOT_FOUND, the rendered page.  A read that asks nothing gets none.
Answers(e, f, pages) ==
    IF Fetches(e, f)
    THEN {[status |-> "NOT_FOUND", page |-> EmptySoup]}
             \cup {[status |-> "OK", page |-> pg] : pg \in pages}
    ELSE {[status |-> "", page |-> EmptySoup]}

\* The httpx.get and driver.get calls made so far with the link of e.
IoOf(e) == e.checks.content + e.checks.links + e.renders.content + e.renders.links

\* The history after a read of field f of e with outcome out: whether some
\* read found its field stored (hits), whether such a read made a call
\* (hitIo) or returned another value than the stored one (hitDiff), and
\* whether a call was made while the output file was open (ioOpen) or
\* after it was written (ioWritten).
Observed(e, f, out) ==
    [hist EXCEPT
        !.hits    = @ \/ e.cache[f] # <<>>,
        !.hitIo   = @ \/ (e.cache[f] # <<>> /\ IoOf(out.e) # IoOf(e)),
        !.hitDiff = @ \/ (e.cache[f] # <<>> /\ out.value # e.cache[f][1]),
        !.ioOpen  = @ \/ (file = "open" /\ IoOf(out.e) # IoOf(e)),
        !.ioWritten = @ \/ (hist.writes > 0 /\ IoOf(out.e) # IoOf(e))]

ReadObjectiveField(i, f, status, page) ==
    LET e   == objectives[i]
        out == ObjectiveRead(e, f, status, page)
    IN  /\ objectives' = [objectives EXCEPT ![i] = out.e]
        /\ prins' = IF f = "principles" /\ ~Cached(e, f)
                    THEN [prins EXCEPT ![i] = NewPrinciples(out.value)]
                    ELSE prins
        /\ hist' = Observed(e, f, out)

ReadPrincipleField(i, k, f, status, page) ==
    LET e   == prins[i][k]
        out == PrincipleRead(e, f, status, page)
    IN  /\ prins' = [prins EXCEPT ![i][k] = out.e]
        /\ objectives' = objectives
        /\ error' = out.raised
        /\ hist' = Observed(e, f, out)

----------------------------------------------------------------------------
(* model_dump(): the serializer walks the tree, reading every computed     *)
(* field in declaration order; pos is [obj, prin, fld], prin = 0 for the   *)
(* Objective's own fields, obj = 0 when the walk is over.                  *)

Done == [obj |-> 0, prin |-> 0, fld |-> 0]

FirstPos(objs) == IF objs = <<>> THEN Done ELSE [obj |-> 1, prin |-> 0, fld |-> 1]

NextObjective(p, objs) ==
    IF p.obj < Len(objs) THEN [obj |-> p.obj + 1, prin |-> 0, fld |-> 1] ELSE Done

\* A walk that does not descend into the Principles.
NextPosFlat(p, objs, ps) ==
    IF p.fld < Len(ObjectiveFields) THEN [p EXCEPT !.fld = @ + 1]
    ELSE NextObjective(p, objs)

\* The position after p, ps being the Principle instances of p's Objective.
NextPos(p, objs, ps) ==
    IF p.prin = 0
    THEN IF p.fld < Len(ObjectiveFields) THEN [p EXCEPT !.fld = @ + 1]
         ELSE IF ps # <<>> THEN [p EXCEPT !.prin = 1, !.fld = 1]
         ELSE NextObjective(p, objs)
    ELSE IF p.fld < Len(PrincipleFields) THEN [p EXCEPT !.fld = @ + 1]
         ELSE IF p.prin < Len(ps) THEN [p EXCEPT !.prin = @ + 1, !.fld = 1]
         ELSE NextObjective(p, objs)

----------------------------------------------------------------------------
(* Spec: one run of the program, __main__ and main().                      *)

NoHist == [homeStatus |-> "", homeChecks |-> 0, homeRenders |-> 0,
           hits |-> FALSE, hitIo |-> FALSE, hitDiff |-> FALSE,
           ioOpen |-> FALSE, ioWritten |-> FALSE, writes |-> 0]

pureVars == <<table, frame, doc, section, anchors, links>>

runVars == <<pc, driver, file, content, objectives, prins, pos, error, hist>>

PureIdle ==
    /\ table = <<>> /\ frame = <<>>
    /\ doc = <<>> /\ section = <<>>
    /\ anchors = <<>> /\ links = <<>>

RunIdle ==
    /\ pc = "idle" /\ driver = "unbound"
    /\ file = "untouched" /\ content = "old"
    /\ objectives = <<>> /\ prins = <<>>
    /\ pos = Done /\ error = "" /\ hist = NoHist

Init ==
    /\ PureIdle
    /\ pc = "start" /\ driver = "unbound"
    /\ file = "untouched" /\ content = "old"
    /\ objectives = <<>> /\ prins = <<>>
    /\ pos = Done /\ error = "" /\ hist = NoHist

\* Lines 382-393: the session is acquired, or webdriver.Firefox raises and
\* the name driver is never bound.
Acquire ==
    /\ pc = "start"
    /\ \E ok \in BOOLEAN :
          IF ok THEN driver' = "open" /\ error' = "" /\ pc' = "main"
          ELSE driver' = driver /\ error' = "WebDriverException" /\ pc' = "except"
    /\ UNCHANGED <<file, content, objectives, prins, pos, hist>>
    /\ UNCHANGED pureVars

\* main(), lines 335-346: the homepage's links, one Objective per link.
Discover ==
    /\ pc = "main"
    /\ \E status \in Statuses, page \in HomePages :
          LET list == get_caf_objective_links(status, HomePage, page.a_tags)
          IN  /\ objectives' = [i \in 1..Len(list) |-> NewEntity(list[i], ObjectiveFields)]
              /\ prins' = [i \in 1..Len(list) |-> <<>>]
              /\ hist' = [hist EXCEPT
                            !.homeStatus  = status,
                            !.homeChecks  = @ + 1,
                            !.homeRenders = IF status = "NOT_FOUND" THEN @ ELSE @ + 1]
    /\ pc' = "open"
    /\ UNCHANGED <<driver, file, content, pos, error>>
    /\ UNCHANGED pureVars

\* Line 348: Path.open(output_json_file, "w") truncates the file.
OpenOutput ==
    /\ pc = "open"
    /\ file' = "open"
    /\ content' = "empty"
    /\ pos' = FirstPos(objectives)
    /\ pc' = "dump"
    /\ UNCHANGED <<driver, objectives, prins, error, hist>>
    /\ UNCHANGED pureVars

\* Line 351, one computed field of an Objective.
DumpObjective ==
    /\ pc = "dump" /\ pos.obj # 0 /\ pos.prin = 0
    /\ \E a \in Answers(objectives[pos.obj], ObjectiveFields[pos.fld],
                         PagesFor(ObjectiveFields[pos.fld])) :
          ReadObjectiveField(pos.obj, ObjectiveFields[pos.fld], a.status, a.page)
    /\ pos' = NextPos(pos, objectives, prins'[pos.obj])
    /\ UNCHANGED <<pc, driver, file, content, error>>
    /\ UNCHANGED pureVars

\* Line 351, one computed field of a Principle; an exception leaves the
\* with block, which closes the file, and reaches __main__'s except clause.
DumpPrinciple ==
    /\ pc = "dump" /\ pos.obj # 0 /\ pos.prin # 0
    /\ \E a \in Answers(prins[pos.obj][pos.prin], PrincipleFields[pos.fld], PrinciplePages) :
          ReadPrincipleField(pos.obj, pos.prin, PrincipleFields[pos.fld], a.status, a.page)
    /\ IF error' # ""
       THEN pc' = "except" /\ file' = "closed" /\ pos' = pos
       ELSE pc' = pc /\ file' = file /\ pos' = NextPos(pos, objectives, prins[pos.obj])
    /\ UNCHANGED <<driver, content>>
    /\ UNCHANGED pureVars

\* Lines 352-366: the text is built and written, and the with block closes
\* the file.
WriteOutput ==
    /\ pc = "dump" /\ pos = Done
    /\ content' = "json"
    /\ file' = "closed"
    /\ hist' = [hist EXCEPT !.writes = @ + 1]
    /\ pc' = "finally"
    /\ UNCHANGED <<driver, objectives, prins, pos, error>>
    /\ UNCHANGED pureVars

\* Lines 395-397: logger.error(exc); raise.
Except ==
    /\ pc = "except"
    /\ pc' = "finally"
    /\ UNCHANGED <<driver, file, content, objectives, prins, pos, error, hist>>
    /\ UNCHANGED pureVars

\* Lines 398-400: driver.close(); the name driver is unbound when the
\* session was never acquired, and the lookup raises NameError.
Finally ==
    /\ pc = "finally"
    /\ IF driver = "unbound"
       THEN driver' = driver /\ error' = "NameError"
       ELSE driver' = "closed" /\ error' = error
    /\ pc' = "exit"
    /\ UNCHANGED <<file, content, objectives, prins, pos, hist>>
    /\ UNCHANGED pureVars

Next ==
    \/ Acquire
    \/ Discover
    \/ OpenOutput
    \/ DumpObjective
    \/ DumpPrinciple
    \/ WriteOutput
    \/ Except
    \/ Finally

Spec == Init /\ [][Next]_vars

----------------------------------------------------------------------------
(* SpecReads: one Objective and the first of its Principles, their         *)
(* computed fields read in any order, any number of times, until a read    *)
(* raises.                                                                 *)

InitReads ==
    /\ PureIdle
    /\ pc = "reads" /\ driver = "open"
    /\ file = "untouched" /\ content = "old"
    /\ objectives = <<NewEntity(Ref(ObjectiveToken, 1), ObjectiveFields)>>
    /\ prins = << <<>> >>
    /\ pos = Done /\ error = "" /\ hist = NoHist

ReadOfObjective ==
    /\ pc = "reads"
    /\ \E f \in Range(ObjectiveFields) :
          \E a \in Answers(objectives[1], f, PagesFor(f)) :
             ReadObjectiveField(1, f, a.status, a.page)
    /\ UNCHANGED <<pc, driver, file, content, pos, error>>
    /\ UNCHANGED pureVars

ReadOfPrinciple ==
    /\ pc = "reads"
    /\ prins[1] # <<>>
    /\ \E f \in Range(PrincipleFields) :
          \E a \in Answers(prins[1][1], f, PrinciplePages) :
             ReadPrincipleField(1, 1, f, a.status, a.page)
    /\ pc' = IF error' # "" THEN "raised" ELSE pc
    /\ UNCHANGED <<driver, file, content, pos>>
    /\ UNCHANGED pureVars

NextReads == ReadOfObjective \/ ReadOfPrinciple

SpecReads == InitReads /\ [][NextReads]_vars

----------------------------------------------------------------------------
(* SpecTable: extract_pcf_table on every table of the bounds.              *)

InitTable ==
    /\ table \in Tables /\ frame = <<>>
    /\ doc = <<>> /\ section = <<>>
    /\ anchors = <<>> /\ links = <<>>
    /\ RunIdle

ExtractTable ==
    /\ frame = <<>>
    /\ frame' = <<extract_pcf_table(table)>>
    /\ UNCHANGED <<table, doc, section, anchors, links>>
    /\ UNCHANGED runVars

NextTable == ExtractTable

SpecTable == InitTable /\ [][NextTable]_vars

----------------------------------------------------------------------------
(* SpecSection: the three section fields on every page of the bounds.      *)

InitSection ==
    /\ doc \in Docs(MaxNodes) /\ section = <<>>
    /\ table = <<>> /\ frame = <<>>
    /\ anchors = <<>> /\ links = <<>>
    /\ RunIdle

ReadSection ==
    /\ section = <<>>
    /\ \E name \in SectionNames :
          section' = <<[name |-> name, value |-> Section(doc, name)]>>
    /\ UNCHANGED <<table, frame, doc, anchors, links>>
    /\ UNCHANGED runVars

NextSection == ReadSection

SpecSection == InitSection /\ [][NextSection]_vars

----------------------------------------------------------------------------
(* SpecLinks: link discovery on every page of the bounds.                  *)

InitLinks ==
    /\ anchors \in SeqsUpTo(ATags, MaxAnchors) /\ links = <<>>
    /\ table = <<>> /\ frame = <<>>
    /\ doc = <<>> /\ section = <<>>
    /\ RunIdle

DiscoverLinks ==
    /\ links = <<>>
    /\ \E status \in Statuses :
          links' = <<[status |-> status,
                      value  |-> get_caf_objective_links(status, HomePage, anchors)]>>
    /\ UNCHANGED <<table, frame, doc, section, anchors>>
    /\ UNCHANGED runVars

NextLinks == DiscoverLinks

SpecLinks == InitLinks /\ [][NextLinks]_vars

----------------------------------------------------------------------------
(* The claims.                                                             *)

Objectives == {objectives[i] : i \in 1..Len(objectives)}

Principles == UNION {{prins[i][k] : k \in 1..Len(prins[i])} : i \in 1..Len(prins)}

Entities == Objectives \cup Principles

FieldsOf(e) == DOMAIN e.cache

\* The <table> elements of the PCF blocks of a page.
TablesOf(page) ==
    UNION {Range(page.pcf_tags[b].tables) : b \in 1..Len(page.pcf_tags)}

----------------------------------------------------------------------------
\* C1, as stated: over any sequence of reads of the computed fields of an
\* entity, each field is computed at most once, the page of the entity is
\* rendered at most once, and a read of a stored field returns the stored
\* value without another existence check or render.
C1_PageRenderedOnce ==
    /\ \A e \in Entities :
          /\ \A f \in FieldsOf(e) : e.computed[f] <= 1
          /\ e.renders.content + e.renders.links <= 1
    /\ ~hist.hitIo
    /\ ~hist.hitDiff

\* C1, amended: over the reads up to the first one that raises, each field
\* is computed and stored at most once; _content makes at most
\* one existence check and one render; a read of a stored field returns the
\* stored value without another check or render.  The first read of an
\* Objective's principles makes one more check and one more render of the
\* same page, for link discovery: the Objective's page is rendered at most
\* twice, a Principle's at most once.
C1_Memoized ==
    /\ \A e \in Entities :
          /\ \A f \in FieldsOf(e) : e.computed[f] <= 1
          /\ e.checks.content <= 1 /\ e.renders.content <= 1
          /\ e.checks.content = e.computed["_content"]
          /\ e.renders.content + e.renders.links <= 2
    /\ \A e \in Objectives :
          /\ e.checks.links = e.computed["principles"]
          /\ e.renders.links <= e.checks.links
    /\ \A e \in Principles : e.checks.links = 0 /\ e.renders.links = 0
    /\ ~hist.hitIo
    /\ ~hist.hitDiff

\* An Objective rendered once for its content and once for its links, a
\* Principle with every field stored, and a read that found its field stored.
C1_Witness ==
    /\ hist.hits
    /\ \E e \in Objectives : e.renders.content = 1 /\ e.renders.links = 1
    /\ \E e \in Principles : \A f \in FieldsOf(e) : e.cache[f] # <<>>

----------------------------------------------------------------------------
\* Every table of every Principle page rendered so far has three rows.
AllTablesThreeRows ==
    \A e \in Principles :
        e.cache["_content"] # <<>> =>
            \A t \in TablesOf(e.cache["_content"][1]) : Len(t) = expected_num_rows

\* C2: in a crawl all of whose PCF tables have exactly 3 rows, no error
\* propagates out of the crawl.
C2_OnlyShapeAborts ==
    (driver # "unbound" /\ AllTablesThreeRows) => error = ""

----------------------------------------------------------------------------
\* The Principle instances whose page has a table of another row count than
\* 3 as the first table that extract_pcf_table refuses.
ShapeBroken(e) ==
    /\ e.cache["_content"] # <<>>
    /\ LET page  == e.cache["_content"][1]
           tabs  == SelectSeq([b \in 1..Len(page.pcf_tags) |-> page.pcf_tags[b].tables],
                              LAMBDA ts : ts # <<>>)
           first == {k \in 1..Len(tabs) :
                        /\ Len(tabs[k][1]) # expected_num_rows
                        /\ \A m \in 1..(k - 1) :
                              extract_pcf_table(tabs[m][1]).raised = ""}
       IN  first # {}

\* pos is at the pcfs field of prins[i][k].
AtPcfs(i, k) == pos = [obj |-> i, prin |-> k, fld |-> Len(PrincipleFields)]

\* C3: a table whose row count is not 3 makes extract_pcf_table raise the
\* shape error with no columns, subheaders or rows built; no PCF block of
\* that Principle is stored, the walk goes no further, nothing is written,
\* and the program ends with that error.
C3_ShapeErrorIsFatal ==
    /\ \A e \in Principles :
          e.cache["_content"] # <<>> =>
             \A t \in TablesOf(e.cache["_content"][1]) :
                Len(t) # expected_num_rows =>
                   extract_pcf_table(t) =
                      [raised |-> "NotImplementedError", columns |-> <<>>, data |-> <<>>]
    /\ \A i \in 1..Len(prins) : \A k \in 1..Len(prins[i]) :
          ShapeBroken(prins[i][k]) =>
             /\ prins[i][k].cache["pcfs"] = <<>>
             /\ hist.writes = 0 /\ content # "json"
             /\ pc = "dump" => (pos.obj = i /\ pos.prin = k)
             /\ pc # "dump" => (AtPcfs(i, k) /\ error = "NotImplementedError")

\* A run that ended with the shape error, raised by the second PCF block of
\* a page whose first block has a sound table.
C3_Witness ==
    /\ pc = "exit" /\ error = "NotImplementedError" /\ driver = "closed"
    /\ \E e \in Principles :
          /\ ShapeBroken(e)
          /\ e.cache["heading"] # <<>>
          /\ extract_pcf_table(e.cache["_content"][1].pcf_tags[1].tables[1]).raised = ""

----------------------------------------------------------------------------
\* The <p> fragment lists of the cells of the last row of a table.
Fragments(t) == [j \in 1..Len(t[Len(t)].td) |-> t[Len(t)].td[j].ps]

\* The rows of frame fr behind the subheader row are the transpose of the
\* fragment lists cols, padded with the absent marker.
IsTranspose(fr, cols) ==
    LET rows == Tail(fr.data)
    IN  /\ Len(rows) = MaxLen(cols)
        /\ \A i \in 1..Len(rows) : \A j \in 1..Len(rows[i]) :
              rows[i][j] = IF j <= Len(cols) /\ i <= Len(cols[j])
                           THEN cols[j][i] ELSE None
        /\ \A j \in 1..Len(cols) : \A i \in 1..Len(cols[j]) :
              j <= Len(rows[i]) /\ rows[i][j] = cols[j][i]

\* C4: for every 3-row table a table is extracted, and its rows behind the
\* subheader row are the index-by-index transpose of the fragment lists of
\* row 2: as many rows as the longest list, entry (i, j) the i-th fragment
\* of column j or the absent marker, no fragment dropped.
C4_Transpose ==
    (frame # <<>> /\ Len(table) = expected_num_rows) =>
        /\ frame[1].raised = ""
        /\ IsTranspose(frame[1], Fragments(table))

\* C4 for the 3-row tables whose header count is the width of the widest
\* row (those pd.DataFrame accepts).
C4_TransposeWhenBuilt ==
    (frame # <<>> /\ Len(table) = expected_num_rows /\ frame[1].raised = "") =>
        IsTranspose(frame[1], Fragments(table))

C4_Witness ==
    /\ frame # <<>> /\ table = RaggedTable
    /\ frame[1].raised = ""
    /\ frame[1].data[3] = <<<<"p", 1, 2>>, None>>

----------------------------------------------------------------------------
SentinelOf(name) ==
    CASE name = "heading"     -> <<"error determining heading">>
      [] name = "principle"   -> <<"error determining principle">>
      [] name = "description" -> <<"error determining description">>
      [] name = "guidance"    -> <<"error determining guidance">>

\* What an entity whose page was reported not found may hold in field f.
EmptyValue(f) ==
    CASE f = "_content" -> EmptySoup
      [] f = "heading"  -> SentinelOf("heading")
      [] f \in SectionNames -> <<SentinelOf(f)>>
      [] f \in {"pcfs", "principles"} -> <<>>

\* C5: an existence check that reports not-found is followed by no render:
\* link discovery returns the empty list, and every field that rests on the
\* page holds its sentinel or is empty.
C5_NotFoundSkipsRender ==
    /\ hist.homeStatus = "NOT_FOUND" => (hist.homeRenders = 0 /\ objectives = <<>>)
    /\ \A i \in 1..Len(objectives) :
          objectives[i].status.links = "NOT_FOUND" =>
             /\ objectives[i].renders.links = 0
             /\ objectives[i].cache["principles"] = << <<>> >>
             /\ prins[i] = <<>>
    /\ \A e \in Entities :
          e.status.content = "NOT_FOUND" =>
             /\ e.renders.content = 0
             /\ \A f \in FieldsOf(e) \ {"principles"} :
                   e.cache[f] # <<>> => e.cache[f][1] = EmptyValue(f)

\* A finished run with a Principle and an Objective whose pages were
\* reported not found, every field of the Principle stored.
C5_Witness ==
    /\ pc = "exit" /\ error = ""
    /\ \E e \in Principles :
          /\ e.status.content = "NOT_FOUND"
          /\ \A f \in FieldsOf(e) : e.cache[f] # <<>>
    /\ \E e \in Objectives :
          e.status.content = "NOT_FOUND" /\ e.cache["heading"] # <<>>

----------------------------------------------------------------------------
\* a <= b for Python strings.
StrLeq(a, b) == a = b \/ StrLess(a, b)

Reordered(seq, perm) == [k \in 1..Len(seq) |-> seq[perm[k]]]

\* C6: discovery returns the anchors whose href holds the token, resolved,
\* in ascending order of the path string, and the order of the anchors in
\* the page does not matter.
C6_SortedByPath ==
    (links # <<>> /\ links[1].status = "OK") =>
        LET result == links[1].value
            wanted == FilterJoin(HomePage, anchors, ObjectiveToken)
        IN  /\ Len(result) = Len(wanted)
            /\ \A u \in Range(wanted) :
                  Cardinality({k \in 1..Len(result) : result[k] = u})
                     = Cardinality({k \in 1..Len(wanted) : wanted[k] = u})
            /\ \A a, b \in 1..Len(result) :
                  a < b => StrLeq(result[a].path, result[b].path)
            /\ \A perm \in Permutations(1..Len(anchors)) :
                  get_caf_objective_links("OK", HomePage, Reordered(anchors, perm)) = result

----------------------------------------------------------------------------
WordOf(name) ==
    CASE name = "principle"   -> "Principle"
      [] name = "description" -> "Description"
      [] name = "guidance"    -> "Guidance"

\* The <h2> tags of doc whose one string holds the word.
Headings(word) ==
    {i \in 1..Len(doc) :
        /\ doc[i].tag = "h2"
        /\ Len(doc[i].pieces) = 1
        /\ word \in Range(doc[i].pieces[1])}

\* The parent container of the first heading of a section that has one.
ContainerOf(name) ==
    LET first == CHOOSE i \in Headings(WordOf(name)) :
                    \A m \in Headings(WordOf(name)) : i <= m
    IN  doc[first].parent

\* The paragraphs of doc inside container c at any depth, and those that
\* are children of c, in document order.
ParasInside(c) ==
    SelectSeq(Indices(doc), LAMBDA j : doc[j].tag = "p" /\ IsInside(doc, j, c))

ParaChildren(c) ==
    SelectSeq(Indices(doc), LAMBDA j : doc[j].tag = "p" /\ doc[j].parent = c)

\* Container a lies inside container b.
Within(a, b) == a # 0 /\ IsInside(doc, a, b)

\* C7: a section field whose heading is missing, or whose heading's parent
\* container holds no paragraph, is the one-element sequence of the
\* section's own sentinel (the read returns, it does not raise).
C7_SectionSentinel ==
    section # <<>> =>
        LET name == section[1].name
        IN  (\/ Headings(WordOf(name)) = {}
             \/ ParasInside(ContainerOf(name)) = <<>>)
                => section[1].value = <<SentinelOf(name)>>

\* The guidance heading is there and its container holds no paragraph,
\* while a paragraph stands elsewhere in the page.
C7_Witness ==
    /\ section # <<>> /\ section[1].name = "guidance"
    /\ Headings("Guidance") # {}
    /\ ParasInside(ContainerOf("guidance")) = <<>>
    /\ ParasInside(0) # <<>>
    /\ section[1].value = << <<"error determining guidance">> >>

----------------------------------------------------------------------------
----------------------------------------------------------------------------
\* Every computed field of every entity created so far is stored.
AllStored == \A e \in Entities : \A f \in FieldsOf(e) : e.cache[f] # <<>>

\* C9, as stated: the output file is written once, after the crawl; no
\* existence check or render happens once the file is open, and a run
\* aborted by the shape error never opens, truncates or writes the file.
C9_NoCrawlOnceOpen ==
    /\ hist.writes <= 1
    /\ ~hist.ioOpen
    /\ error = "NotImplementedError" => (file = "untouched" /\ content = "old")

\* C9, amended: the output file is written at most once, when every field
\* of every entity is stored, and no existence check or render follows the
\* write.  The file is opened, and truncated, behind the homepage's link
\* discovery and before the pages of the Objectives and Principles are
\* checked and rendered; a run aborted by the shape error leaves the file
\* opened, truncated and closed, and never written.
C9_WrittenAfterCrawl ==
    /\ hist.writes <= 1
    /\ hist.writes = 1 => (AllStored /\ content = "json" /\ file = "closed")
    /\ hist.writes = 0 => content # "json"
    /\ ~hist.ioWritten
    /\ file # "untouched" => (hist.homeChecks = 1 /\ content # "old")
    /\ file = "untouched" => (Entities = {} \/ \A e \in Entities : IoOf(e) = 0)
    /\ error = "NotImplementedError" =>
          (file = "closed" /\ content = "empty" /\ hist.writes = 0)

\* A finished run that rendered pages while the file was open and then
\* wrote it, every field of an Objective and a Principle stored.
C9_Witness ==
    /\ pc = "exit" /\ error = ""
    /\ hist.ioOpen /\ hist.writes = 1 /\ content = "json"
    /\ Principles # {}
    /\ \E e \in Principles : e.renders.content = 1

----------------------------------------------------------------------------
\* C10: on every exit path the program ends with the session closed or
\* never opened, and the cleanup step raises no error of its own.
C10_SessionReleased ==
    pc = "exit" => (driver \in {"closed", "unbound"} /\ error # "NameError")

============================================================================
